---------------------------- MODULE Spec2Model ----------------------------
(***************************************************************************)
(* Detection pipeline of the Flock-You firmware (main.cpp): the WiFi and   *)
(* BLE capture callbacks, the detection queue, the processing task with    *)
(* its tracked-device table, and the alert (LED) state machine driven by   *)
(* the processing task and the main loop.                                  *)
(***************************************************************************)
EXTENDS Integers, Sequences, FiniteSets, TLC

(***************************************************************************)
(* Program constants                                                       *)
(***************************************************************************)
\* variant: the queue created one item longer
QueueLengthLonger == 16 + 1
QUEUE_LENGTH == 16
MAX_TRACKED == 64
HASH_MAX_PROBE == 8
DETECTION_TTL == 300000
LED_ALERT_TIMEOUT == 15000
LED_DETECTED_QUIET == 5000
\* variant: the quiet time is twice as long
OutOfRangeLonger == 2 * 30000
OUT_OF_RANGE_MS == 30000
CHANNEL_STICKY_DURATION == 5000
MAX_CHANNEL == 13
CHANNEL_DETECTION_BONUS == 500
CHANNEL_MAX_DWELL == 3000
CHANNEL_DWELL_BASE == 200
CHANNEL_DWELL_ACTIVE == 800
CHANNEL_DWELL_HIGH == 1500
CHANNEL_ACTIVE_THRESHOLD == 5
CHANNEL_HIGH_THRESHOLD == 20
U16 == 65536
U8 == 256
LED_FLASH_MIN_INTERVAL == 50
LED_FLASH_MAX_INTERVAL == 400
PROBE_INTERVAL_MIN == 10
PROBE_INTERVAL_MAX == 30000

(***************************************************************************)
(* Bounds of the model: frames offered by the environment and clock steps  *)
(* in each scenario.                                                       *)
(***************************************************************************)
QueueWifiFrames == 17
QueueBleAds == 1
DedupWifiFrames == 2
DedupBleAds == 1
DedupTicks == 2
DedupWindow == 1
AlertWifiFrames == 1
AlertBleAds == 1
AlertTicks == 2
AlertWindow == 1
HopWifiFrames == 2
HopTicks == 2
HopWindow == 1
LedWifiFrames == 1
LedTicks == 2
DwellWifiFrames == 1
DwellTicks == 1
CountWifiFrames == 256
HitWifiFrames == 64
CaptureWifiFrames == 2
CaptureBleAds == 2
CaptureWindow == 2
FlashWifiFrames == 1
FlashTicks == 1
FlashStep == 200
MutexWifiFrames == 2
MutexBleAds == 1
MutexWindow == 2
TwinWifiFrames == 2
TwinTicks == 1
TwinStep == 1000
IntervalWifiFrames == 3
IntervalTicks == 2
RangeWifiFrames == 1
RangeBleAds == 1
RangeTicks == 1
RangeStep == 30000
RssiWifiFrames == 3
RssiBleAds == 1
RssiTicks == 1

(***************************************************************************)
(* Inputs offered by the radio environment                                 *)
(***************************************************************************)
MacA == <<88, 142, 129, 0, 17, 34>>       \* 58:8e:81:00:11:22, listed prefix
MacB == <<170, 187, 204, 1, 2, 3>>        \* aa:bb:cc:01:02:03, no listed prefix
MacC == <<17, 34, 51, 68, 85, 102>>       \* 11:22:33:44:55:66, no listed prefix

\* eight devices with a listed prefix whose hashes share MacA's home slot (9)
Fillers ==
    << <<88, 142, 129, 0, 0, 29>>,  <<88, 142, 129, 0, 0, 93>>,
       <<88, 142, 129, 0, 0, 157>>, <<88, 142, 129, 0, 0, 221>>,
       <<88, 142, 129, 0, 1, 50>>,  <<88, 142, 129, 0, 1, 114>>,
       <<88, 142, 129, 0, 1, 178>>, <<88, 142, 129, 0, 1, 242>> >>

\* two MACs with listed prefixes (94:34:69, ec:1b:bd) and one FNV-1a hash
TwinA == <<148, 52, 105, 96, 42, 94>>
TwinB == <<236, 27, 189, 90, 91, 152>>

Macs == {MacA, MacB, MacC, TwinA, TwinB} \cup {Fillers[i] : i \in 1..Len(Fillers)}

Hidden == <<>>
FlockSsid == <<"M","y","F","l","o","c","k","C","a","m","-","1">>
HomeSsid == <<"H","o","m","e">>
PenguinName == <<"P","E","N","G","U","I","N">>
\* the text processingTask passes for an empty SSID
HiddenText == <<"h","i","d","d","e","n">>
Names == {Hidden, FlockSsid, HomeSsid, PenguinName, HiddenText}

(***************************************************************************)
(* 32-bit unsigned arithmetic on little-endian byte quadruples: a uint32_t *)
(* does not fit the 32-bit signed integers of TLC; the hash wraps around.  *)
(***************************************************************************)
RECURSIVE XorBits(_, _, _)
XorBits(a, b, n) ==
    IF n = 0 THEN 0
    ELSE (((a % 2) + (b % 2)) % 2) + 2 * XorBits(a \div 2, b \div 2, n - 1)

Xor8(a, b) == XorBits(a, b, 8)

\* h * 16777619 mod 2^32, with 16777619 = 2^24 + 403
MulFnvPrime(h) ==
    LET t0 == h[1] * 403
        t1 == h[2] * 403 + (t0 \div 256)
        t2 == h[3] * 403 + (t1 \div 256)
        t3 == h[4] * 403 + (t2 \div 256) + h[1]
    IN  <<t0 % 256, t1 % 256, t2 % 256, t3 % 256>>

\* 2166136261 = 0x811C9DC5
FNV_OFFSET_BASIS == <<197, 157, 28, 129>>
HASH_ZERO == <<0, 0, 0, 0>>
HASH_ONE == <<1, 0, 0, 0>>

RECURSIVE FnvFold(_, _, _)
FnvFold(h, mac, i) ==
    IF i > 6 THEN h
    ELSE FnvFold(MulFnvPrime(<<Xor8(h[1], mac[i]), h[2], h[3], h[4]>>), mac, i + 1)

fnv1a_mac(mac) ==
    LET hash == FnvFold(FNV_OFFSET_BASIS, mac, 1)
    IN  IF hash # HASH_ZERO THEN hash ELSE HASH_ONE

\* the hashes of the offered MACs, computed once
MacHashes == [m \in Macs |-> fnv1a_mac(m)]
HashOf(mac) == MacHashes[mac]

\* hash & MAX_TRACKED_MASK
HashIndex(hash) == hash[1] % MAX_TRACKED


\* uint32_t a - b as the code compares it against a threshold: a wrapped
\* difference (b > a) is at least 2^31 for the time spans of the model and
\* exceeds every threshold of the program; U32_WRAPPED stands for it.
U32_WRAPPED == 2147483647
Sub32(a, b) == IF a >= b THEN a - b ELSE U32_WRAPPED

(***************************************************************************)
(* Fingerprint database                                                    *)
(***************************************************************************)
\* a C string is modelled as the tuple of its characters
UpperCase == <<"A","B","C","D","E","F","G","H","I","J","K","L","M",
               "N","O","P","Q","R","S","T","U","V","W","X","Y","Z">>
LowerCase == <<"a","b","c","d","e","f","g","h","i","j","k","l","m",
               "n","o","p","q","r","s","t","u","v","w","x","y","z">>

tolower(c) ==
    IF \E i \in 1..26 : UpperCase[i] = c
    THEN LowerCase[CHOOSE i \in 1..26 : UpperCase[i] = c]
    ELSE c

\* strcasestr(hay, needle) != NULL
strcasestr(hay, needle) ==
    \E i \in 0..(Len(hay) - Len(needle)) :
        \A j \in 1..Len(needle) : tolower(hay[i + j]) = tolower(needle[j])

wifi_ssid_patterns ==
    << <<"f","l","o","c","k">>,
       <<"f","s"," ","e","x","t"," ","b","a","t","t","e","r","y">>,
       <<"p","e","n","g","u","i","n">>,
       <<"p","i","g","v","i","s","i","o","n">> >>

device_name_patterns ==
    << <<"f","s"," ","e","x","t"," ","b","a","t","t","e","r","y">>,
       <<"p","e","n","g","u","i","n">>,
       <<"f","l","o","c","k">>,
       <<"p","i","g","v","i","s","i","o","n">> >>

\* the 3-octet prefixes, as the bytes their hex text denotes
mac_prefixes ==
    { <<88,142,129>>, <<204,204,204>>, <<236,27,189>>, <<144,53,234>>,
      <<4,13,132>>, <<240,130,192>>, <<28,52,241>>, <<56,91,68>>,
      <<148,52,105>>, <<180,227,249>>, <<112,201,78>>, <<60,145,128>>,
      <<216,243,188>>, <<128,48,73>>, <<20,90,252>>, <<116,76,161>>,
      <<8,58,136>>, <<156,47,157>>, <<148,8,83>>, <<228,170,234>> }

\* "%02x:%02x:%02x" of mac[0..2] compared (strncasecmp, 8 chars) with each
\* prefix: two-digit hex text is equal exactly when the bytes are equal.
check_mac_prefix(mac) == <<mac[1], mac[2], mac[3]>> \in mac_prefixes

check_ssid_pattern_of(ssid) ==
    \E i \in 1..Len(wifi_ssid_patterns) : strcasestr(ssid, wifi_ssid_patterns[i])

check_device_name_pattern_of(name) ==
    \E i \in 1..Len(device_name_patterns) : strcasestr(name, device_name_patterns[i])

\* the verdicts for the offered names, computed once
SsidVerdicts == [n \in Names |-> check_ssid_pattern_of(n)]
NameVerdicts == [n \in Names |-> check_device_name_pattern_of(n)]
check_ssid_pattern(ssid) == SsidVerdicts[ssid]
check_device_name_pattern(name) == NameVerdicts[name]

(***************************************************************************)
(* Tracked device table                                                    *)
(***************************************************************************)
ZeroMac == <<0, 0, 0, 0, 0, 0>>

\* a zero-initialised TrackedDevice (static storage)
EmptyDevice ==
    [mac_hash |-> HASH_ZERO, mac |-> ZeroMac, rssi_min |-> 0, rssi_max |-> 0,
     rssi_last |-> 0, rssi_sum |-> 0, hit_count |-> 0, last_channel |-> 0,
     type |-> 0, first_seen |-> 0, last_seen |-> 0,
     probe_interval_sum |-> 0, probe_intervals |-> 0]

EmptyTable == [s \in 0..(MAX_TRACKED - 1) |-> EmptyDevice]

NoSlot == -1

RECURSIVE FindProbe(_, _, _, _)
FindProbe(table, hash, idx, probe) ==
    IF probe >= HASH_MAX_PROBE THEN NoSlot
    ELSE LET slot == (idx + probe) % MAX_TRACKED
         IN  IF table[slot].mac_hash = HASH_ZERO THEN NoSlot
             ELSE IF table[slot].mac_hash = hash THEN slot
             ELSE FindProbe(table, hash, idx, probe + 1)

\* the slot of the TrackedDevice* returned, NoSlot for nullptr
find_tracked(table, mac) ==
    LET hash == HashOf(mac)
    IN  FindProbe(table, hash, HashIndex(hash), 0)

\* variant: the TTL comparison reversed
IsAlreadyDetectedTtlReversed(table, mac, t) ==
    LET slot == find_tracked(table, mac)
    IN  IF slot = NoSlot THEN FALSE
        ELSE IF Sub32(t, table[slot].last_seen) < DETECTION_TTL THEN FALSE
        ELSE TRUE

\* variant: no TTL test, a tracked device never expires
IsAlreadyDetectedNoTtl(table, mac, t) == find_tracked(table, mac) # NoSlot

is_already_detected(table, mac, t) ==
    LET slot == find_tracked(table, mac)
    IN  IF slot = NoSlot THEN FALSE
        ELSE IF Sub32(t, table[slot].last_seen) > DETECTION_TTL THEN FALSE
        ELSE TRUE

\* variant: the RSSI range is not extended on update
UpdateTrackedKeepsRange(dev, rssi, channel, type, t) ==
    [dev EXCEPT !.rssi_last = rssi,
                !.rssi_sum = dev.rssi_sum + rssi,
                !.hit_count = (dev.hit_count + 1) % U16,
                !.last_seen = t,
                !.last_channel = channel,
                !.type = type]

\* variant: every interval is accumulated
UpdateTrackedCountsEveryInterval(dev, rssi, channel, type, t) ==
    [dev EXCEPT
        !.rssi_last = rssi,
        !.rssi_min = IF rssi < dev.rssi_min THEN rssi ELSE dev.rssi_min,
        !.rssi_max = IF rssi > dev.rssi_max THEN rssi ELSE dev.rssi_max,
        !.rssi_sum = dev.rssi_sum + rssi,
        !.probe_interval_sum = dev.probe_interval_sum + Sub32(t, dev.last_seen),
        !.probe_intervals = (dev.probe_intervals + 1) % U16,
        !.hit_count = (dev.hit_count + 1) % U16,
        !.last_seen = t,
        !.last_channel = channel,
        !.type = type]

update_tracked_device(dev, rssi, channel, type, t) ==
    LET interval == Sub32(t, dev.last_seen)
        timed == interval > PROBE_INTERVAL_MIN /\ interval < PROBE_INTERVAL_MAX
    IN  [dev EXCEPT
            !.rssi_last = rssi,
            !.rssi_min = IF rssi < dev.rssi_min THEN rssi ELSE dev.rssi_min,
            !.rssi_max = IF rssi > dev.rssi_max THEN rssi ELSE dev.rssi_max,
            !.rssi_sum = dev.rssi_sum + rssi,
            !.probe_interval_sum =
                IF timed THEN dev.probe_interval_sum + interval
                ELSE dev.probe_interval_sum,
            !.probe_intervals =
                IF timed THEN (dev.probe_intervals + 1) % U16
                ELSE dev.probe_intervals,
            !.hit_count = (dev.hit_count + 1) % U16,
            !.last_seen = t,
            !.last_channel = channel,
            !.type = type]

NewDevice(hash, mac, rssi, channel, type, t) ==
    [mac_hash |-> hash, mac |-> mac, rssi_min |-> rssi, rssi_max |-> rssi,
     rssi_last |-> rssi, rssi_sum |-> rssi, hit_count |-> 1,
     last_channel |-> channel, type |-> type, first_seen |-> t,
     last_seen |-> t, probe_interval_sum |-> 0, probe_intervals |-> 0]

\* variant: at the probe limit the new device takes over its home slot
AddProbeEvicts(tab, hash, mac, rssi, channel, type, t, probe) ==
    LET home == HashIndex(hash)
        free == {p \in 0..(HASH_MAX_PROBE - 1) :
                    tab.table[(home + p) % MAX_TRACKED].mac_hash \in {HASH_ZERO, hash}}
        slot == IF free = {} THEN home
                ELSE (home + (CHOOSE p \in free : \A q \in free : p <= q)) % MAX_TRACKED
    IN  IF tab.table[slot].mac_hash = hash
        THEN [tab EXCEPT !.table[slot] =
                 update_tracked_device(tab.table[slot], rssi, channel, type, t)]
        ELSE [table |-> [tab.table EXCEPT
                            ![slot] = NewDevice(hash, mac, rssi, channel, type, t)],
              entries |-> tab.entries + 1,
              collisions |-> IF slot # home THEN tab.collisions + 1 ELSE tab.collisions,
              warned |-> FALSE]

\* variant: a failed insertion is counted as a collision
AddProbeCountsFailure(tab, hash, mac, rssi, channel, type, t, probe) ==
    LET home == HashIndex(hash)
        free == {p \in 0..(HASH_MAX_PROBE - 1) :
                    tab.table[(home + p) % MAX_TRACKED].mac_hash \in {HASH_ZERO, hash}}
    IN  IF free = {}
        THEN [tab EXCEPT !.warned = TRUE, !.collisions = @ + 1]
        ELSE AddProbeEvicts(tab, hash, mac, rssi, channel, type, t, probe)

\* tab is [table, entries, collisions, warned]; the result has the same shape
RECURSIVE AddProbe(_, _, _, _, _, _, _, _)
AddProbe(tab, hash, mac, rssi, channel, type, t, probe) ==
    IF probe >= HASH_MAX_PROBE THEN [tab EXCEPT !.warned = TRUE]
    ELSE LET slot == (HashIndex(hash) + probe) % MAX_TRACKED
         IN  IF tab.table[slot].mac_hash = HASH_ZERO
             THEN [table |-> [tab.table EXCEPT
                                 ![slot] = NewDevice(hash, mac, rssi, channel, type, t)],
                   entries |-> tab.entries + 1,
                   collisions |-> IF probe > 0 THEN tab.collisions + 1
                                  ELSE tab.collisions,
                   warned |-> FALSE]
             ELSE IF tab.table[slot].mac_hash = hash
             THEN [tab EXCEPT
                      !.table[slot] =
                          update_tracked_device(tab.table[slot], rssi, channel, type, t)]
             ELSE AddProbe(tab, hash, mac, rssi, channel, type, t, probe + 1)

add_detected_device(tab, mac, rssi, channel, type, t) ==
    AddProbe([tab EXCEPT !.warned = FALSE], HashOf(mac),
             mac, rssi, channel, type, t, 0)


(***************************************************************************)
(* Frame and event tags                                                    *)
(***************************************************************************)
\* 802.11 frame_ctrl subtypes as the handler computes them, (fc & 0xFF) >> 2
FT_PROBE_REQ == 16
FT_PROBE_RESP == 20
FT_BEACON == 32
\* a data frame: any other value is dropped after the activity count
FT_DATA == 2

\* DetectionEvent.type
EVT_PROBE_REQ == 0
EVT_BEACON == 1
EVT_BLE_MAC == 2
EVT_BLE_NAME == 3
EVT_PROBE_RESP == 4

(***************************************************************************)
(* State                                                                   *)
(***************************************************************************)
VARIABLES
    variant,              \* build: "CYD" or "WAVESHARE"
    ledAlertsEnabled,     \* DisplayHandler::ledAlertsEnabled (CYD setting)
    now,                  \* millis()
    env,                  \* what the environment may still do: frames left,
                          \* clock steps left, and the queue depth (window)
                          \* below which it offers another frame
    detectionQueue,       \* FreeRTOS queue of DetectionEvent
    events_processed,
    events_dropped,
    tracked_devices,
    hash_entries,
    hash_collisions,
    table_warned,         \* the probe-limit warning was printed by the last insert
    current_channel,
    last_channel_hop,
    channel_activity,
    channel_detections,
    channel_sticky_until,
    led_state,
    led_detection_time,
    led_detection_rssi,
    triggered,
    device_in_range,
    last_detection_time,
    pending_beep,
    led_flash_on,
    led_last_toggle,
    displayMutex,         \* holder of the display mutex: "free", "task", "loop"
    display,              \* the DisplayHandler fields the firmware's logic uses
    pcTask,               \* position of processingTask
    evt,                  \* processingTask's local DetectionEvent
    pcLoop,               \* position of loop()
    loop_now,             \* the local now of led_flash_update / hop_channel
    loop_sw,              \* the led_state value the switch / if read
    ble_blocked,          \* the event onResult is blocked sending, or <<>>
    rx_pending,           \* a frame the radio received whose promiscuous
                          \* callback has not run yet, with rx_ctrl.channel
    accepted,             \* history: events accepted into the queue
    rejected,             \* history: enqueue attempts that returned failure
    records_out,          \* history: detection records written to serial
    last_out,             \* history: the last record written
    prev_match,           \* history: per MAC, when its last match was processed
    ever_emitted          \* history: per MAC, a record was written for it

vars ==
    <<variant, ledAlertsEnabled, now, env, detectionQueue, events_processed,
      events_dropped, tracked_devices, hash_entries, hash_collisions,
      table_warned, current_channel, last_channel_hop, channel_activity,
      channel_detections, channel_sticky_until, led_state, led_detection_time,
      led_detection_rssi, triggered, device_in_range, last_detection_time,
      pending_beep, led_flash_on, led_last_toggle, displayMutex, display,
      pcTask, evt, pcLoop, loop_now, loop_sw, ble_blocked, rx_pending, accepted, rejected, records_out, last_out, prev_match, ever_emitted>>

tableVars == <<tracked_devices, hash_entries, hash_collisions, table_warned>>
channelVars ==
    <<current_channel, last_channel_hop, channel_activity, channel_detections,
      channel_sticky_until>>
ledVars == <<led_state, led_detection_time, led_detection_rssi>>
flashVars == <<led_flash_on, led_last_toggle>>
displayVars == <<displayMutex, display>>
latchVars == <<triggered, device_in_range, last_detection_time, pending_beep>>
queueVars == <<detectionQueue, events_dropped, accepted, rejected>>
taskVars == <<pcTask, evt, events_processed>>
loopVars == <<pcLoop, loop_now, loop_sw>>
outVars == <<records_out, last_out, prev_match, ever_emitted>>
buildVars == <<variant, ledAlertsEnabled>>

LED_SCANNING == "LED_SCANNING"
LED_DETECTED == "LED_DETECTED"
LED_ALERT == "LED_ALERT"

NoEvent == <<>>
NoFrame == <<>>
NoRecord == <<>>
Never == 0 - 1

\* DisplayHandler's constructor: ledState(1), detectionRssi(-100), ...
InitDisplay ==
    [ledState |-> 1, detectionRssi |-> -100, lastDetectionTime |-> 0,
     ledFlashState |-> FALSE, lastLedUpdate |-> 0, lastSdCheck |-> 0,
     totalDetections |-> 0]

\* every global but the clock and the channel scheduler's variables
InitOthers ==
    /\ detectionQueue = <<>>
    /\ events_processed = 0
    /\ events_dropped = 0
    /\ hash_entries = 0
    /\ hash_collisions = 0
    /\ table_warned = FALSE
    /\ tracked_devices = EmptyTable
    /\ channel_sticky_until = 0
    /\ led_state = LED_SCANNING
    /\ led_detection_time = 0
    /\ led_detection_rssi = -100
    /\ triggered = FALSE
    /\ device_in_range = FALSE
    /\ last_detection_time = 0
    /\ pending_beep = FALSE
    /\ led_flash_on = FALSE
    /\ led_last_toggle = 0
    /\ displayMutex = "free"
    /\ display = InitDisplay
    /\ pcTask = "idle"
    /\ evt = NoEvent
    /\ pcLoop = "led_begin"
    /\ loop_now = 0
    /\ loop_sw = LED_SCANNING
    /\ ble_blocked = NoEvent
    /\ rx_pending = NoFrame
    /\ accepted = 0
    /\ rejected = 0
    /\ records_out = 0
    /\ last_out = NoRecord
    /\ prev_match = [m \in Macs |-> Never]
    /\ ever_emitted = [m \in Macs |-> FALSE]

\* every global but the clock and the channel scheduler's position
InitRest ==
    /\ channel_activity = [c \in 0..MAX_CHANNEL |-> 0]
    /\ channel_detections = [c \in 0..MAX_CHANNEL |-> 0]
    /\ InitOthers


\* the globals as their initialisers leave them, setup() done
InitProgram ==
    /\ now = 0
    /\ current_channel = 1
    /\ last_channel_hop = 0
    /\ InitRest


(***************************************************************************)
(* Detection queue (FreeRTOS queue of QUEUE_LENGTH items)                  *)
(***************************************************************************)
\* variant: the item is put at the front (xQueueSendToFront)
QueueSendToFront(q, e) ==
    IF Len(q) < QUEUE_LENGTH
    THEN [ok |-> TRUE, q |-> <<e>> \o q]
    ELSE [ok |-> FALSE, q |-> q]

\* variant: a full queue drops its oldest item to take the new one
QueueSendDropOldest(q, e) ==
    IF Len(q) < QUEUE_LENGTH
    THEN [ok |-> TRUE, q |-> Append(q, e)]
    ELSE [ok |-> FALSE, q |-> Append(Tail(q), e)]

\* variant: the item is read but left in the queue (xQueuePeek)
QueuePeek(q) == [item |-> Head(q), q |-> q]

\* xQueueSend at the moment it finds the queue: the item is copied to the
\* back when there is room, and the queue is left alone when there is none
xQueueSend(q, e) ==
    IF Len(q) < QUEUE_LENGTH
    THEN [ok |-> TRUE, q |-> Append(q, e)]
    ELSE [ok |-> FALSE, q |-> q]

\* xQueueReceive on a non-empty queue: the item at the front
xQueueReceive(q) == [item |-> Head(q), q |-> Tail(q)]

(***************************************************************************)
(* Event capture                                                           *)
(***************************************************************************)
IsMgmtSubtype(ft) == ft = FT_PROBE_REQ \/ ft = FT_PROBE_RESP \/ ft = FT_BEACON

\* the SSID element (tag 0) of the frame: absent when its length is 0 or > 32
ParseSsid(elem) == IF Len(elem) > 0 /\ Len(elem) <= 32 THEN elem ELSE <<>>

WifiEventType(ft) ==
    IF ft = FT_PROBE_REQ THEN EVT_PROBE_REQ
    ELSE IF ft = FT_PROBE_RESP THEN EVT_PROBE_RESP ELSE EVT_BEACON

OfferedFrames == IF env.script # <<>> THEN {Head(env.script)} ELSE env.frames

\* wifi_sniffer_packet_handler for frame f, ch its rx_ctrl.channel
wifi_sniffer_packet_handler(f, ch) ==
    LET e == [mac |-> f.mac, ssid |-> ParseSsid(f.ssid), rssi |-> f.rssi,
              channel |-> ch, type |-> WifiEventType(f.ftype),
              seq |-> accepted + 1]
        sent == xQueueSend(detectionQueue, e)
    IN  /\ channel_activity' =
              IF ch >= 1 /\ ch <= 13
              THEN [channel_activity EXCEPT ![ch] = (@ + 1) % U16]
              ELSE channel_activity
        /\ IF ~IsMgmtSubtype(f.ftype)
           THEN UNCHANGED queueVars
           ELSE /\ detectionQueue' = sent.q
                /\ accepted' = IF sent.ok THEN accepted + 1 ELSE accepted
                /\ events_dropped' =
                      IF sent.ok THEN events_dropped ELSE events_dropped + 1
                /\ rejected' = IF sent.ok THEN rejected ELSE rejected + 1
        /\ UNCHANGED <<buildVars, now, tableVars, current_channel,
                       last_channel_hop, channel_detections,
                       channel_sticky_until, ledVars, flashVars, displayVars, latchVars, taskVars,
                       loopVars, ble_blocked, outVars>>

\* the environment offers a frame: one of its budget, the scripted one first
FrameOffered(f) ==
    /\ env.wifi > 0
    /\ Len(detectionQueue) < env.window
    /\ rx_pending = NoFrame
    /\ f \in OfferedFrames
    /\ env' = [env EXCEPT !.wifi = @ - 1,
                          !.script = IF @ # <<>> THEN Tail(@) ELSE @]

\* a frame is received on the current channel and its callback runs at once
WifiRx ==
    \E f \in OfferedFrames :
        /\ FrameOffered(f)
        /\ wifi_sniffer_packet_handler(f, current_channel)
        /\ UNCHANGED rx_pending

\* the radio receives a frame on the channel it is tuned to; the WiFi task
\* has not called the promiscuous callback yet
WifiRxRadio ==
    \E f \in OfferedFrames :
        /\ FrameOffered(f)
        /\ rx_pending' = [frame |-> f, channel |-> current_channel]
        /\ UNCHANGED <<buildVars, now, queueVars, tableVars, channelVars,
                       ledVars, flashVars, displayVars, latchVars, taskVars, loopVars, ble_blocked,
                       outVars>>

\* the WiFi task calls the callback for the frame received earlier
WifiRxCallback ==
    /\ rx_pending # NoFrame
    /\ wifi_sniffer_packet_handler(rx_pending.frame, rx_pending.channel)
    /\ rx_pending' = NoFrame
    /\ UNCHANGED env

\* variant: nothing is filtered at capture
BleFilteredNever(mac_match, name_match) == FALSE

\* if (!mac_match && !name_match) { ... return; }
BleFiltered(mac_match, name_match) ==
    ~mac_match /\ ~name_match

\* strncpy(evt.ssid, name.c_str(), 32); evt.ssid[32] = '\0';
TruncateName(name) == IF Len(name) > 32 THEN SubSeq(name, 1, 32) ELSE name

\* AdvertisedDeviceCallbacks::onResult up to its xQueueSend(.., 10 ms): the
\* event is queued at once when there is room, else the callback blocks
onResult(ad) ==
    LET mac_match == check_mac_prefix(ad.mac)
        name_match == Len(ad.name) > 0 /\ check_device_name_pattern(ad.name)
        e == [mac |-> ad.mac, ssid |-> TruncateName(ad.name), rssi |-> ad.rssi,
              channel |-> 0,
              type |-> IF mac_match THEN EVT_BLE_MAC ELSE EVT_BLE_NAME,
              seq |-> accepted + 1]
        sent == xQueueSend(detectionQueue, e)
    IN  /\ env.ble > 0
        /\ env.script = <<>>
        /\ Len(detectionQueue) < env.window
        /\ ble_blocked = NoEvent
        /\ env' = [env EXCEPT !.ble = @ - 1]
        /\ IF BleFiltered(mac_match, name_match)
           THEN UNCHANGED <<detectionQueue, accepted, ble_blocked>>
           ELSE /\ detectionQueue' = sent.q
                /\ accepted' = IF sent.ok THEN accepted + 1 ELSE accepted
                /\ ble_blocked' = IF sent.ok THEN NoEvent ELSE e
        /\ UNCHANGED <<buildVars, now, events_dropped, rejected, tableVars,
                       channelVars, ledVars, flashVars, displayVars, latchVars, taskVars, loopVars,
                       rx_pending, outVars>>

BleRx == \E ad \in env.adverts : onResult(ad)

\* the blocked xQueueSend of onResult returns: with the item queued once
\* there is room, with errQUEUE_FULL (ignored by the caller) at the timeout
onResultUnblock ==
    LET sent == xQueueSend(detectionQueue,
                           [ble_blocked EXCEPT !.seq = accepted + 1])
    IN  /\ ble_blocked # NoEvent
        /\ ble_blocked' = NoEvent
        /\ detectionQueue' = sent.q
        /\ accepted' = IF sent.ok THEN accepted + 1 ELSE accepted
        /\ rejected' = IF sent.ok THEN rejected ELSE rejected + 1
        /\ UNCHANGED <<buildVars, now, env, events_dropped, tableVars,
                       channelVars, ledVars, flashVars, displayVars, latchVars, taskVars, loopVars,
                       rx_pending, outVars>>


(***************************************************************************)
(* Processing task                                                         *)
(***************************************************************************)
IsWifiEvent(e) == e.type <= 1 \/ e.type = 4

\* ssid_match || mac_match for a WiFi event; a BLE event was matched at capture
EventMatches(e) ==
    IF IsWifiEvent(e)
    THEN (Len(e.ssid) > 0 /\ check_ssid_pattern(e.ssid)) \/ check_mac_prefix(e.mac)
    ELSE TRUE

EventChannel(e) == IF IsWifiEvent(e) THEN e.channel ELSE 0

\* the table after the event: add_detected_device for a new detection,
\* update_tracked_device of the found entry for a re-detection
TableAfter(tab, e, t) ==
    IF ~EventMatches(e) THEN tab
    ELSE IF ~is_already_detected(tab.table, e.mac, t)
    THEN add_detected_device(tab, e.mac, e.rssi, EventChannel(e), e.type, t)
    ELSE LET slot == find_tracked(tab.table, e.mac)
         IN  IF slot = NoSlot THEN tab
             ELSE [tab EXCEPT
                      !.table[slot] =
                          update_tracked_device(tab.table[slot], e.rssi,
                                                EventChannel(e), e.type, t)]

\* ssid_out: the SSID of the event, "hidden" for an empty one
SsidOut(e) == IF Len(e.ssid) > 0 THEN e.ssid ELSE HiddenText

\* the pattern test the output functions make again on the text they were
\* given: ssid_match over ssid_out (WiFi), name_match over the name (BLE)
OutputTextMatch(e) ==
    IF IsWifiEvent(e) THEN check_ssid_pattern(SsidOut(e))
    ELSE Len(e.ssid) > 0 /\ check_device_name_pattern(e.ssid)

\* doc["detection_criteria"]
DetectionCriteria(e) ==
    LET text_match == OutputTextMatch(e)
        mac_match == check_mac_prefix(e.mac)
    IN  IF IsWifiEvent(e)
        THEN (IF text_match /\ mac_match THEN "SSID_AND_MAC"
              ELSE IF text_match THEN "SSID_ONLY" ELSE "MAC_ONLY")
        ELSE (IF text_match /\ mac_match THEN "NAME_AND_MAC"
              ELSE IF text_match THEN "NAME_ONLY" ELSE "MAC_ONLY")

\* variant: one score for every record
ThreatScoreFlat(e) == 85

\* doc["threat_score"]
ThreatScore(e) ==
    LET text_match == OutputTextMatch(e)
        mac_match == check_mac_prefix(e.mac)
    IN  IF text_match /\ mac_match THEN 100
        ELSE IF text_match \/ mac_match THEN 85 ELSE 70

\* what output_wifi_detection_json / output_ble_detection_json write
DetectionRecord(e, table, t, chan) ==
    LET slot == find_tracked(table, e.mac)
    IN  [timestamp |-> t,
         protocol |-> IF IsWifiEvent(e) THEN "wifi" ELSE "ble",
         mac |-> e.mac, rssi |-> e.rssi,
         channel |-> IF IsWifiEvent(e) THEN chan ELSE 0,
         type |-> e.type,
         detection_criteria |-> DetectionCriteria(e),
         threat_score |-> ThreatScore(e),
         enriched |-> slot # NoSlot,
         hit_count |-> IF slot # NoSlot THEN table[slot].hit_count ELSE 0]

\* variant: the take waits for the holder (portMAX_DELAY)
TakeBlocks(held) ==
    ~held

\* xSemaphoreTake(displayMutex, pdMS_TO_TICKS(n)) comes back within its
\* timeout, with the mutex or without it
TakeReturns(held) ==
    TRUE

\* DisplayHandler::addDetection, as far as the counters go
addDetection(d) == [d EXCEPT !.totalDetections = @ + 1]

\* DisplayHandler::setLEDDetection at time t
setLEDDetection(d, rssi, t) ==
    [d EXCEPT !.ledState = 2, !.detectionRssi = rssi, !.lastDetectionTime = t]

\* if (!triggered) { ... led_flash_trigger(evt.rssi); }
TriggerWanted(newdet, latch) == newdet /\ ~latch

\* one iteration of processingTask's loop with an event received, up to the
\* first store of led_flash_trigger (led_state) when the alert is triggered
ProcessEvent ==
    /\ pcTask = "idle"
    /\ detectionQueue # <<>>
    /\ LET got == xQueueReceive(detectionQueue)
           e == got.item
           wifi == IsWifiEvent(e)
           matched == EventMatches(e)
           newdet == matched /\ ~is_already_detected(tracked_devices, e.mac, now)
           tab == TableAfter([table |-> tracked_devices, entries |-> hash_entries,
                              collisions |-> hash_collisions,
                              warned |-> table_warned], e, now)
           fire == TriggerWanted(newdet, triggered)
           \* the guarded display calls: showDebugSSID, addDetection
           guarded == newdet \/ (wifi /\ Len(e.ssid) > 0)
       IN  /\ guarded => TakeReturns(displayMutex # "free")
           /\ display' = IF newdet /\ displayMutex = "free"
                         THEN addDetection(display) ELSE display
           /\ detectionQueue' = got.q
           /\ evt' = e
           /\ events_processed' = events_processed + 1
           /\ IF wifi /\ matched /\ e.channel >= 1 /\ e.channel <= 13
              THEN /\ channel_detections' =
                        [channel_detections EXCEPT ![e.channel] = (@ + 1) % U8]
                   /\ channel_sticky_until' = now + CHANNEL_STICKY_DURATION
              ELSE UNCHANGED <<channel_detections, channel_sticky_until>>
           /\ tracked_devices' = tab.table
           /\ hash_entries' = tab.entries
           /\ hash_collisions' = tab.collisions
           /\ table_warned' = tab.warned
           /\ IF newdet
              THEN /\ records_out' = records_out + 1
                   /\ last_out' = DetectionRecord(e, tab.table, now, current_channel)
                   /\ ever_emitted' = [ever_emitted EXCEPT ![e.mac] = TRUE]
              ELSE UNCHANGED <<records_out, last_out, ever_emitted>>
           /\ prev_match' = IF matched THEN [prev_match EXCEPT ![e.mac] = now]
                            ELSE prev_match
           /\ IF fire
              THEN /\ triggered' = TRUE
                   \* WiFi: flock_detected_beep_sequence() here; BLE: deferred
                   /\ device_in_range' = IF wifi THEN TRUE ELSE device_in_range
                   /\ last_detection_time' = now
                   /\ pending_beep' = IF wifi THEN pending_beep ELSE TRUE
                   /\ led_state' = LED_DETECTED
                   /\ pcTask' = "led_stamp"
              ELSE /\ last_detection_time' = IF matched THEN now ELSE last_detection_time
                   /\ pcTask' = "idle"
                   /\ UNCHANGED <<triggered, device_in_range, pending_beep, led_state>>
    /\ UNCHANGED <<buildVars, now, env, events_dropped, accepted, rejected,
                   current_channel, last_channel_hop, channel_activity,
                   led_detection_time, led_detection_rssi, flashVars,
                   displayMutex, loopVars, ble_blocked, rx_pending>>

\* the other stores of led_flash_trigger, and on Waveshare its take of the
\* display mutex
TaskLedStamp ==
    /\ pcTask = "led_stamp"
    /\ led_detection_time' = now
    /\ led_detection_rssi' = evt.rssi
    /\ led_flash_on' = TRUE
    /\ led_last_toggle' = now
    /\ variant = "WAVESHARE" => TakeReturns(displayMutex # "free")
    /\ displayMutex' = IF variant = "WAVESHARE" /\ displayMutex = "free"
                       THEN "task" ELSE displayMutex
    /\ pcTask' = "led_show"
    /\ UNCHANGED <<buildVars, now, env, queueVars, tableVars, channelVars,
                   led_state, latchVars, display, evt, events_processed,
                   loopVars, ble_blocked, rx_pending, outVars>>

\* the end of led_flash_trigger: Waveshare calls display.setLEDDetection and
\* gives the mutex back if it took it; the others drive the LED red
TaskLedShow ==
    /\ pcTask = "led_show"
    /\ IF displayMutex = "task"
       THEN /\ display' = setLEDDetection(display, evt.rssi, now)
            /\ displayMutex' = "free"
       ELSE UNCHANGED displayVars
    /\ pcTask' = "finish"
    /\ UNCHANGED <<buildVars, now, env, queueVars, tableVars, channelVars,
                   ledVars, flashVars, latchVars, evt, events_processed,
                   loopVars, ble_blocked, rx_pending, outVars>>

\* last_detection_time = millis() after the new-detection branch
TaskFinish ==
    /\ pcTask = "finish"
    /\ last_detection_time' = now
    /\ pcTask' = "idle"
    /\ UNCHANGED <<buildVars, now, env, queueVars, tableVars, channelVars,
                   ledVars, flashVars, displayVars, triggered, device_in_range, pending_beep, evt,
                   events_processed, loopVars, ble_blocked, rx_pending, outVars>>


(***************************************************************************)
(* Main loop: led_flash_update, the deferred beep, hop_channel and the     *)
(* out-of-range check, in the order loop() runs them                       *)
(***************************************************************************)
LoopOthers ==
    <<buildVars, now, env, queueVars, tableVars, taskVars, ble_blocked,
      rx_pending, outVars>>

\* led_flash_update entry: now = millis(); CYD returns when LED alerts are
\* off, else the switch reads led_state; Waveshare goes to its first if
LoopLedBegin ==
    /\ pcLoop = "led_begin"
    /\ loop_now' = now
    /\ IF variant = "CYD"
       THEN IF ledAlertsEnabled
            THEN loop_sw' = led_state /\ pcLoop' = "cyd_case"
            ELSE loop_sw' = loop_sw /\ pcLoop' = "beep"
       ELSE loop_sw' = loop_sw /\ pcLoop' = "ws_if1"
    /\ UNCHANGED <<LoopOthers, channelVars, ledVars, flashVars, displayVars, latchVars>>

\* the quiet period / timeout test of the alert state `from`
LedElapsed(from, t, stamp) ==
    IF from = LED_DETECTED THEN Sub32(t, stamp) >= LED_DETECTED_QUIET
    ELSE IF from = LED_ALERT THEN Sub32(t, stamp) >= LED_ALERT_TIMEOUT
    ELSE FALSE

\* variant: the update never advances the state
LedNextStays(from) == from

LedNext(from) == IF from = LED_DETECTED THEN LED_ALERT ELSE LED_SCANNING

\* variant: the weakest signal flashes fastest
get_flash_interval_reversed(rssi) ==
    IF rssi >= -40 THEN LED_FLASH_MAX_INTERVAL
    ELSE IF rssi >= -50 THEN 300
    ELSE IF rssi >= -60 THEN 200
    ELSE IF rssi >= -70 THEN 150
    ELSE IF rssi >= -80 THEN 100
    ELSE LED_FLASH_MIN_INTERVAL

get_flash_interval(rssi) ==
    IF rssi >= -40 THEN LED_FLASH_MIN_INTERVAL
    ELSE IF rssi >= -50 THEN 100
    ELSE IF rssi >= -60 THEN 150
    ELSE IF rssi >= -70 THEN 200
    ELSE IF rssi >= -80 THEN 300
    ELSE LED_FLASH_MAX_INTERVAL

\* CYD: the case the switch selected toggles the flash (LED_DETECTED), tests
\* the elapsed time and stores
LoopLedCase ==
    /\ pcLoop = "cyd_case"
    /\ IF loop_sw = LED_DETECTED
          /\ Sub32(loop_now, led_last_toggle) >= get_flash_interval(led_detection_rssi)
       THEN led_flash_on' = ~led_flash_on /\ led_last_toggle' = loop_now
       ELSE UNCHANGED flashVars
    /\ led_state' = IF LedElapsed(loop_sw, loop_now, led_detection_time)
                    THEN LedNext(loop_sw) ELSE led_state
    /\ pcLoop' = "beep"
    /\ UNCHANGED <<LoopOthers, channelVars, led_detection_time,
                   led_detection_rssi, latchVars, displayVars, loop_now, loop_sw>>

\* Waveshare: the condition of an if reads led_state and the timestamp
LoopLedTest(at, from, store, skip) ==
    /\ pcLoop = at
    /\ loop_sw' = led_state
    /\ pcLoop' = IF led_state = from /\ LedElapsed(from, loop_now, led_detection_time)
                 THEN store ELSE skip
    /\ UNCHANGED <<LoopOthers, channelVars, ledVars, flashVars, displayVars, latchVars, loop_now>>

\* DisplayHandler::setLEDAlert / setLEDScanning
setLEDState(d, state) ==
    [d EXCEPT !.ledState = IF state = LED_ALERT THEN 3 ELSE 1]

\* Waveshare: the body of the if stores the next state and, if it gets the
\* display mutex, tells the display
LoopLedStore(at, from, next) ==
    /\ pcLoop = at
    /\ led_state' = LedNext(from)
    /\ TakeReturns(displayMutex # "free")
    /\ display' = IF displayMutex = "free"
                  THEN setLEDState(display, LedNext(from)) ELSE display
    /\ pcLoop' = next
    /\ UNCHANGED <<LoopOthers, channelVars, led_detection_time,
                   led_detection_rssi, flashVars, displayMutex, latchVars,
                   loop_now, loop_sw>>

LoopLedIf1 == LoopLedTest("ws_if1", LED_DETECTED, "ws_set1", "ws_if2")
LoopLedSet1 == LoopLedStore("ws_set1", LED_DETECTED, "ws_if2")
LoopLedIf2 == LoopLedTest("ws_if2", LED_ALERT, "ws_set2", "beep")
LoopLedSet2 == LoopLedStore("ws_set2", LED_ALERT, "beep")

\* if (pending_beep) { pending_beep = false; flock_detected_beep_sequence(); }
LoopBeep ==
    /\ pcLoop = "beep"
    /\ pcLoop' = "display"
    /\ IF pending_beep
       THEN /\ pending_beep' = FALSE
            /\ device_in_range' = TRUE
            /\ last_detection_time' = now
       ELSE UNCHANGED <<pending_beep, device_in_range, last_detection_time>>
    /\ UNCHANGED <<LoopOthers, channelVars, ledVars, flashVars, displayVars, triggered, loop_now, loop_sw>>

\* DisplayHandler::checkSDCard every 3000 ms (CYD) or 5000 ms (Waveshare)
SD_CHECK_CYD == 3000
SD_CHECK_WAVESHARE == 5000
SdCheckInterval(v) == IF v = "CYD" THEN SD_CHECK_CYD ELSE SD_CHECK_WAVESHARE

\* DisplayHandler::checkSDCard at time t: when the interval has passed it
\* stamps lastSdCheck and then probes the card (SD.open / SD.begin)
SdCheckDue(d, v, t) == Sub32(t, d.lastSdCheck) >= SdCheckInterval(v)
checkSDCard(d, v, t) ==
    IF SdCheckDue(d, v, t) THEN [d EXCEPT !.lastSdCheck = t] ELSE d

\* constrain(x, lo, hi)
constrain(x, lo, hi) == IF x < lo THEN lo ELSE IF x > hi THEN hi ELSE x

\* C's integer division, which truncates toward zero
DivTrunc(a, b) == IF a >= 0 THEN a \div b ELSE -((-a) \div b)

\* Arduino's map(x, in_min, in_max, out_min, out_max)
map(x, in_min, in_max, out_min, out_max) ==
    DivTrunc((x - in_min) * (out_max - out_min), in_max - in_min) + out_min

\* variant: the interval is not clamped
FlashIntervalUnclamped(rssi) ==
    map(rssi, -90, -30, 400, 50)

\* flashInterval of DisplayHandler::updateLED
FlashInterval(rssi) ==
    map(constrain(rssi, -90, -30), -90, -30, 400, 50)

\* DisplayHandler::updateLED (Waveshare) at time t
updateLED(d, t) ==
    IF d.ledState = 2
    THEN LET toggle == Sub32(t, d.lastLedUpdate) > FlashInterval(d.detectionRssi)
             lost == Sub32(t, d.lastDetectionTime) > 10000
         IN  [d EXCEPT !.ledFlashState = IF toggle THEN ~@ ELSE @,
                       !.lastLedUpdate = IF toggle THEN t ELSE @,
                       !.ledState = IF lost THEN 3 ELSE @]
    ELSE d

\* loop: if (xSemaphoreTake(displayMutex, pdMS_TO_TICKS(10)) == pdTRUE)
LoopDisplayTake ==
    /\ pcLoop = "display"
    /\ TakeReturns(displayMutex # "free")
    /\ IF displayMutex = "free"
       THEN displayMutex' = "loop" /\ pcLoop' = "display_update"
       ELSE displayMutex' = displayMutex /\ pcLoop' = "hop"
    /\ UNCHANGED <<LoopOthers, channelVars, ledVars, flashVars, latchVars,
                   display, loop_now, loop_sw>>

\* display.update() with the mutex held, then xSemaphoreGive
LoopDisplayUpdate ==
    /\ pcLoop = "display_update"
    /\ display' = IF variant = "WAVESHARE"
                  THEN updateLED(checkSDCard(display, variant, now), now)
                  ELSE checkSDCard(display, variant, now)
    /\ displayMutex' = "free"
    /\ pcLoop' = "hop"
    /\ UNCHANGED <<LoopOthers, channelVars, ledVars, flashVars, latchVars,
                   loop_now, loop_sw>>

\* variant: no detection bonus
DwellTimeNoBonus(activity, detections) ==
    IF activity >= CHANNEL_HIGH_THRESHOLD THEN CHANNEL_DWELL_HIGH
    ELSE IF activity >= CHANNEL_ACTIVE_THRESHOLD THEN CHANNEL_DWELL_ACTIVE
    ELSE CHANNEL_DWELL_BASE

DwellTime(activity, detections) ==
    LET base == IF activity >= CHANNEL_HIGH_THRESHOLD THEN CHANNEL_DWELL_HIGH
                ELSE IF activity >= CHANNEL_ACTIVE_THRESHOLD THEN CHANNEL_DWELL_ACTIVE
                ELSE CHANNEL_DWELL_BASE
        bonus == base + CHANNEL_DETECTION_BONUS * detections
    IN  IF detections > 0
        THEN (IF bonus > CHANNEL_MAX_DWELL THEN CHANNEL_MAX_DWELL ELSE bonus)
        ELSE base

\* variant: every other channel
NextChannelSkips(c) == IF c + 2 > MAX_CHANNEL THEN 1 ELSE c + 2

\* current_channel++; if (current_channel > MAX_CHANNEL) current_channel = 1;
NextChannel(c) == IF c + 1 > MAX_CHANNEL THEN 1 ELSE c + 1

\* hop_channel entry: now = millis(); if (now < channel_sticky_until) return;
HopBegin ==
    /\ pcLoop = "hop"
    /\ loop_now' = now
    /\ pcLoop' = IF now < channel_sticky_until THEN "range" ELSE "hop_dwell"
    /\ UNCHANGED <<LoopOthers, channelVars, ledVars, flashVars, displayVars, latchVars, loop_sw>>

\* the rest of hop_channel: the dwell of the current channel, and the hop
\* when now - last_channel_hop exceeds it
HopDwell ==
    /\ pcLoop = "hop_dwell"
    /\ pcLoop' = "range"
    /\ IF Sub32(loop_now, last_channel_hop) >
             DwellTime(channel_activity[current_channel],
                       channel_detections[current_channel])
       THEN /\ channel_activity' = [channel_activity EXCEPT ![current_channel] = 0]
            /\ current_channel' = NextChannel(current_channel)
            /\ last_channel_hop' = loop_now
       ELSE UNCHANGED <<current_channel, last_channel_hop, channel_activity>>
    /\ UNCHANGED <<LoopOthers, channel_detections, channel_sticky_until,
                   ledVars, flashVars, displayVars, latchVars, loop_now, loop_sw>>

hop_channel == HopBegin \/ HopDwell

\* if (device_in_range) { ... if (now - last_detection_time >= 30000) ... }
LoopRange ==
    /\ pcLoop = "range"
    /\ pcLoop' = "led_begin"
    /\ IF device_in_range /\ Sub32(now, last_detection_time) >= OUT_OF_RANGE_MS
       THEN device_in_range' = FALSE /\ triggered' = FALSE
       ELSE UNCHANGED <<device_in_range, triggered>>
    /\ UNCHANGED <<LoopOthers, channelVars, ledVars, flashVars, displayVars, last_detection_time,
                   pending_beep, loop_now, loop_sw>>

\* DisplayHandler's settings page toggles the LED alerts (CYD)
ToggleLedAlerts ==
    /\ variant = "CYD"
    /\ ledAlertsEnabled' = ~ledAlertsEnabled
    /\ UNCHANGED <<variant, now, env, queueVars, tableVars, channelVars,
                   ledVars, flashVars, displayVars, latchVars, taskVars, loopVars, ble_blocked, rx_pending, outVars>>

\* millis() advances
Tick ==
    /\ env.ticks > 0
    /\ env.script = <<>>
    /\ \E d \in env.steps : now' = now + d
    /\ env' = [env EXCEPT !.ticks = @ - 1]
    /\ UNCHANGED <<buildVars, queueVars, tableVars, channelVars, ledVars, flashVars, displayVars,
                   latchVars, taskVars, loopVars, ble_blocked, rx_pending, outVars>>

Capture == WifiRx \/ BleRx \/ onResultUnblock
processingTask == ProcessEvent \/ TaskLedStamp \/ TaskLedShow \/ TaskFinish
led_flash_update ==
    \/ LoopLedBegin \/ LoopLedCase
    \/ LoopLedIf1 \/ LoopLedSet1 \/ LoopLedIf2 \/ LoopLedSet2
display_update == LoopDisplayTake \/ LoopDisplayUpdate
loop == led_flash_update \/ LoopBeep \/ display_update \/ hop_channel \/ LoopRange

(***************************************************************************)
(* Scenarios                                                               *)
(***************************************************************************)
Frame(mac, ssid, rssi, ft) == [mac |-> mac, ssid |-> ssid, rssi |-> rssi, ftype |-> ft]
Advert(mac, name, rssi) == [mac |-> mac, name |-> name, rssi |-> rssi]

\* A burst against the queue: one WiFi device, BLE adverts, no clock
QueueEnv ==
    [wifi |-> QueueWifiFrames, ble |-> QueueBleAds, ticks |-> 0,
     window |-> QUEUE_LENGTH + 1, script |-> <<>>, steps |-> {},
     frames |-> {Frame(MacA, Hidden, -60, FT_PROBE_REQ)},
     adverts |-> {Advert(MacB, PenguinName, -75)}]

InitQueue ==
    /\ InitProgram
    /\ variant \in {"CYD"}
    /\ ledAlertsEnabled = TRUE
    /\ env = QueueEnv

NextQueue == Capture \/ processingTask

SpecQueue == InitQueue /\ [][NextQueue]_vars

FairSpecQueue == SpecQueue /\ WF_vars(processingTask)


\* Deduplication: a few devices over minutes, from an empty table or after
\* a boot-time burst of eight devices that share one probe neighbourhood
FillerScript == [i \in 1..Len(Fillers) |-> Frame(Fillers[i], Hidden, -65, FT_BEACON)]

DedupEnv(script) ==
    [wifi |-> Len(script) + DedupWifiFrames, ble |-> DedupBleAds,
     ticks |-> DedupTicks, window |-> DedupWindow, script |-> script,
     steps |-> {1, DETECTION_TTL},
     frames |-> {Frame(MacA, Hidden, -60, FT_PROBE_REQ),
                 Frame(MacC, FlockSsid, -70, FT_BEACON)},
     adverts |-> {Advert(MacB, PenguinName, -75)}]

InitDedup ==
    /\ InitProgram
    /\ variant = "CYD"
    /\ ledAlertsEnabled = TRUE
    /\ env \in {DedupEnv(<<>>), DedupEnv(FillerScript)}

NextDedup == WifiRx \/ BleRx \/ processingTask \/ Tick

SpecDedup == InitDedup /\ [][NextDedup]_vars

\* Alerting: both builds, the main loop running against the processing task
AlertEnv ==
    [wifi |-> AlertWifiFrames, ble |-> AlertBleAds, ticks |-> AlertTicks,
     window |-> AlertWindow, script |-> <<>>, steps |-> {LED_ALERT_TIMEOUT},
     frames |-> {Frame(MacA, Hidden, -60, FT_PROBE_REQ)},
     adverts |-> {Advert(MacB, PenguinName, -75)}]

InitAlert ==
    /\ InitProgram
    /\ variant \in {"CYD", "WAVESHARE"}
    /\ ledAlertsEnabled \in (IF variant = "CYD" THEN BOOLEAN ELSE {TRUE})
    /\ env = AlertEnv

NextAlert == WifiRx \/ BleRx \/ processingTask \/ loop \/ Tick

SpecAlert == InitAlert /\ [][NextAlert]_vars


\* Channel scheduling: the main loop hopping while the WiFi task delivers
\* frames (at once, or after the radio has moved on) and the processing task
\* handles matches; the sweep starts on channel 1 or has reached channel 13
HopStep == CHANNEL_MAX_DWELL + 1
HopStartChannels == {1, MAX_CHANNEL}

\* the sweep of quiet channels reaches channel c after c - 1 base dwells
QuietSweepTime(c) == (c - 1) * (CHANNEL_DWELL_BASE + 1)

HopEnv ==
    [wifi |-> HopWifiFrames, ble |-> 0, ticks |-> HopTicks,
     window |-> HopWindow, script |-> <<>>, steps |-> {HopStep},
     frames |-> {Frame(MacA, Hidden, -60, FT_PROBE_REQ)},
     adverts |-> {}]

InitHop ==
    /\ \E c \in HopStartChannels :
          /\ current_channel = c
          /\ now = QuietSweepTime(c)
          /\ last_channel_hop = QuietSweepTime(c)
    /\ variant \in {"CYD", "WAVESHARE"}
    /\ ledAlertsEnabled = TRUE
    /\ env = HopEnv
    /\ InitRest

\* loop() iterates many times per step of the clock: millis() moves on only
\* when hop_channel has just run at the current time
HopTick == Tick /\ pcLoop = "range" /\ loop_now = now

NextHop ==
    WifiRx \/ WifiRxRadio \/ WifiRxCallback \/ processingTask \/ loop \/ HopTick

SpecHop == InitHop /\ [][NextHop]_vars


\* The alert state machine left to run: one detection, then the clock and
\* the main loop, which FreeRTOS keeps scheduling (loopTask never blocks for
\* good), on both builds and with the CYD LED alerts on or off
LedEnv ==
    [wifi |-> LedWifiFrames, ble |-> 0, ticks |-> LedTicks, window |-> 1,
     script |-> <<>>, steps |-> {LED_ALERT_TIMEOUT},
     frames |-> {Frame(MacA, Hidden, -60, FT_PROBE_REQ)},
     adverts |-> {}]

InitLed ==
    /\ InitProgram
    /\ variant \in {"CYD", "WAVESHARE"}
    /\ ledAlertsEnabled \in (IF variant = "CYD" THEN BOOLEAN ELSE {TRUE})
    /\ env = LedEnv

NextLed == WifiRx \/ processingTask \/ loop \/ Tick

SpecLed == InitLed /\ [][NextLed]_vars

FairSpecLed == SpecLed /\ WF_vars(loop)


\* The dwell computation: hop_channel applied to the values its inputs
\* take - the activity counter around its two thresholds, the detection
\* counter from none to its largest, the time since the last hop around
\* every dwell the tiers and the bonus give - with one more frame (a match) and one more step of time to come
DwellActivities == {4, 19}
DwellDetections == {0, 1, U8 - 1}
DwellElapsed ==
    {CHANNEL_DWELL_BASE, CHANNEL_DWELL_BASE + CHANNEL_DETECTION_BONUS,
     CHANNEL_DWELL_ACTIVE, CHANNEL_MAX_DWELL}

DwellEnv ==
    [wifi |-> DwellWifiFrames, ble |-> 0, ticks |-> DwellTicks,
     window |-> 1, script |-> <<>>, steps |-> {1, LED_DETECTED_QUIET},
     frames |-> {Frame(MacA, Hidden, -60, FT_PROBE_REQ)},
     adverts |-> {}]

InitDwell ==
    /\ \E c \in {MAX_CHANNEL}, a \in DwellActivities,
          d \in DwellDetections, e \in DwellElapsed :
          /\ current_channel = c
          /\ last_channel_hop = QuietSweepTime(c)
          /\ now = QuietSweepTime(c) + e
          /\ channel_activity = [ch \in 0..MAX_CHANNEL |-> IF ch = c THEN a ELSE 0]
          /\ channel_detections = [ch \in 0..MAX_CHANNEL |-> IF ch = c THEN d ELSE 0]
    /\ variant \in {"CYD", "WAVESHARE"}
    /\ ledAlertsEnabled = TRUE
    /\ env = DwellEnv
    /\ InitOthers

NextDwell == WifiRx \/ processingTask \/ loop \/ HopTick

SpecDwell == InitDwell /\ [][NextDwell]_vars

\* The lifetime counter: one device matching on channel 1 again and again
CountEnv ==
    [wifi |-> CountWifiFrames, ble |-> 0, ticks |-> 0, window |-> 1,
     script |-> <<>>, steps |-> {},
     frames |-> {Frame(MacA, Hidden, -60, FT_PROBE_REQ)},
     adverts |-> {}]

InitCount ==
    /\ InitProgram
    /\ variant = "CYD"
    /\ ledAlertsEnabled = TRUE
    /\ env = CountEnv

NextCount == WifiRx \/ processingTask

SpecCount == InitCount /\ [][NextCount]_vars

\* the state SpecCount is in once `n` frames of its one device were received
\* and processed (n >= 1, the clock at 0), with environment `e` to come
AfterMatches(n, e) ==
    LET f == CHOOSE x \in CountEnv.frames : TRUE
        dev == [NewDevice(HashOf(f.mac), f.mac, f.rssi, 1, EVT_PROBE_REQ, 0)
                   EXCEPT !.hit_count = n % U16, !.rssi_sum = n * f.rssi]
    IN  /\ now = 0
        /\ current_channel = 1
        /\ last_channel_hop = 0
        /\ variant = "CYD"
        /\ ledAlertsEnabled = TRUE
        /\ env = e
        /\ detectionQueue = <<>>
        /\ events_processed = n
        /\ events_dropped = 0
        /\ hash_entries = 1
        /\ hash_collisions = 0
        /\ table_warned = FALSE
        /\ tracked_devices =
              [EmptyTable EXCEPT ![HashIndex(HashOf(f.mac))] = dev]
        /\ channel_activity =
              [c \in 0..MAX_CHANNEL |-> IF c = 1 THEN n % U16 ELSE 0]
        /\ channel_detections =
              [c \in 0..MAX_CHANNEL |-> IF c = 1 THEN n % U8 ELSE 0]
        /\ channel_sticky_until = CHANNEL_STICKY_DURATION
        /\ led_state = LED_DETECTED
        /\ led_detection_time = 0
        /\ led_detection_rssi = f.rssi
        /\ triggered = TRUE
        /\ device_in_range = TRUE
        /\ last_detection_time = 0
        /\ pending_beep = FALSE
        /\ led_flash_on = TRUE
        /\ led_last_toggle = 0
        /\ displayMutex = "free"
        /\ display = [InitDisplay EXCEPT !.totalDetections = 1]
        /\ pcTask = "idle"
        /\ evt = [mac |-> f.mac, ssid |-> <<>>, rssi |-> f.rssi, channel |-> 1,
                  type |-> EVT_PROBE_REQ, seq |-> n]
        /\ pcLoop = "led_begin"
        /\ loop_now = 0
        /\ loop_sw = LED_SCANNING
        /\ ble_blocked = NoEvent
        /\ rx_pending = NoFrame
        /\ accepted = n
        /\ rejected = 0
        /\ records_out = 1
        /\ last_out = [timestamp |-> 0, protocol |-> "wifi", mac |-> f.mac,
                       rssi |-> f.rssi, channel |-> 1, type |-> EVT_PROBE_REQ,
                       detection_criteria |-> "MAC_ONLY", threat_score |-> 85,
                       enriched |-> TRUE, hit_count |-> 1]
        /\ prev_match = [m \in Macs |-> IF m = f.mac THEN 0 ELSE Never]
        /\ ever_emitted = [m \in Macs |-> m = f.mac]

\* SpecCount is in that state whenever it is at rest after a frame
AfterMatchesReached ==
    (events_processed >= 1 /\ pcTask = "idle" /\ detectionQueue = <<>>)
        => AfterMatches(events_processed,
                        [CountEnv EXCEPT !.wifi = CountWifiFrames - events_processed])

\* The same device still matching hours later: the state SpecCount reaches
\* after HitsBefore frames, and HitWifiFrames more frames to come
HitsBefore == U16 - (HitWifiFrames \div 2)

InitHits == AfterMatches(HitsBefore, [CountEnv EXCEPT !.wifi = HitWifiFrames])

\* the alert is latched (triggered) all along: led_flash_trigger is not
\* called again and ProcessEvent handles every event to its end
NextHits == WifiRx \/ ProcessEvent

SpecHits == InitHits /\ [][NextHits]_vars

\* Capture and classification: WiFi frames and BLE advertisements that match
\* by both criteria, by one, or by none
CaptureEnv ==
    [wifi |-> CaptureWifiFrames, ble |-> CaptureBleAds, ticks |-> 0,
     window |-> CaptureWindow, script |-> <<>>, steps |-> {},
     frames |-> {Frame(MacA, FlockSsid, -45, FT_BEACON),
                 Frame(MacA, Hidden, -60, FT_PROBE_REQ),
                 Frame(MacC, FlockSsid, -70, FT_PROBE_RESP),
                 Frame(MacC, HomeSsid, -50, FT_BEACON)},
     adverts |-> {Advert(MacA, PenguinName, -55),
                  Advert(MacB, PenguinName, -75),
                  Advert(MacA, Hidden, -65),
                  Advert(MacC, HomeSsid, -40)}]

InitCapture ==
    /\ InitProgram
    /\ variant = "CYD"
    /\ ledAlertsEnabled = TRUE
    /\ env = CaptureEnv

NextCapture == WifiRx \/ BleRx \/ processingTask

SpecCapture == InitCapture /\ [][NextCapture]_vars

\* The display mutex: two devices detected while the main loop makes one
\* pass from led_flash_update to display.update(), where it may stop for
\* good, the mutex in its hands or not
MutexEnv ==
    [wifi |-> MutexWifiFrames, ble |-> MutexBleAds, ticks |-> 0,
     window |-> MutexWindow, script |-> <<>>, steps |-> {},
     frames |-> {Frame(MacA, FlockSsid, -45, FT_BEACON),
                 Frame(MacC, FlockSsid, -70, FT_PROBE_RESP),
                 Frame(MacC, HomeSsid, -50, FT_BEACON)},
     adverts |-> {Advert(MacB, PenguinName, -75)}]

InitMutex ==
    /\ InitProgram
    /\ variant \in {"CYD", "WAVESHARE"}
    /\ ledAlertsEnabled = TRUE
    /\ env = MutexEnv

NextMutex ==
    \/ WifiRx \/ BleRx \/ processingTask
    \/ LoopLedBegin \/ LoopLedCase \/ LoopLedIf1 \/ LoopLedIf2 \/ LoopBeep
    \/ display_update

SpecMutex == InitMutex /\ [][NextMutex]_vars

\* the processing task is scheduled fairly; nothing is asked of the loop
FairSpecMutex == SpecMutex /\ WF_vars(processingTask)

\* LED flashing: one device at any signal strength an int8_t can hold, and
\* one pass of the main loop from led_flash_update to display.update()
FlashRssis == (0 - 128)..127

FlashEnv ==
    [wifi |-> FlashWifiFrames, ble |-> 0, ticks |-> FlashTicks, window |-> 1,
     script |-> <<>>, steps |-> {FlashStep},
     frames |-> {Frame(MacA, Hidden, r, FT_PROBE_REQ) : r \in FlashRssis},
     adverts |-> {}]

InitFlash ==
    /\ InitProgram
    /\ variant \in {"CYD", "WAVESHARE"}
    /\ ledAlertsEnabled = TRUE
    /\ env = FlashEnv

NextFlash ==
    \/ WifiRx \/ processingTask \/ Tick
    \/ LoopLedBegin \/ LoopLedCase \/ LoopLedIf1 \/ LoopLedIf2 \/ LoopBeep
    \/ display_update

SpecFlash == InitFlash /\ [][NextFlash]_vars

\* Two devices whose MACs hash alike, heard one after the other
TwinEnv ==
    [wifi |-> TwinWifiFrames, ble |-> 0, ticks |-> TwinTicks, window |-> 2,
     script |-> <<>>, steps |-> {TwinStep},
     frames |-> {Frame(TwinA, Hidden, -60, FT_PROBE_REQ),
                 Frame(TwinB, FlockSsid, -45, FT_BEACON)},
     adverts |-> {}]

InitTwins ==
    /\ InitProgram
    /\ variant = "CYD"
    /\ ledAlertsEnabled = TRUE
    /\ env = TwinEnv

NextTwins == WifiRx \/ processingTask \/ Tick

SpecTwins == InitTwins /\ [][NextTwins]_vars

\* Probe timing: one device heard three times, at gaps on both sides of
\* the two ends of the interval window and beyond the TTL
IntervalEnv ==
    [wifi |-> IntervalWifiFrames, ble |-> 0, ticks |-> IntervalTicks,
     window |-> 1, script |-> <<>>,
     steps |-> {PROBE_INTERVAL_MIN, PROBE_INTERVAL_MIN + 1,
                PROBE_INTERVAL_MAX - PROBE_INTERVAL_MIN - 1, DETECTION_TTL + 1},
     frames |-> {Frame(MacA, Hidden, -60, FT_PROBE_REQ)},
     adverts |-> {}]

InitInterval ==
    /\ InitProgram
    /\ variant = "CYD"
    /\ ledAlertsEnabled = TRUE
    /\ env = IntervalEnv

NextInterval == WifiRx \/ processingTask \/ Tick

SpecInterval == InitInterval /\ [][NextInterval]_vars

\* The out-of-range reset: two devices (one over WiFi, one over BLE) heard
\* at any time, before or after the clock moves by the quiet time, with the
\* main loop and processingTask kept running by FreeRTOS (one task per
\* core, neither blocks for good), on both builds
RangeEnv ==
    [wifi |-> RangeWifiFrames, ble |-> RangeBleAds, ticks |-> RangeTicks,
     window |-> 1, script |-> <<>>, steps |-> {RangeStep},
     frames |-> {Frame(MacA, Hidden, -60, FT_PROBE_REQ)},
     adverts |-> {Advert(MacB, PenguinName, -75)}]

InitRange ==
    /\ InitProgram
    /\ variant \in {"CYD", "WAVESHARE"}
    /\ ledAlertsEnabled = TRUE
    /\ env = RangeEnv

NextRange == WifiRx \/ BleRx \/ processingTask \/ loop \/ Tick

SpecRange == InitRange /\ [][NextRange]_vars

FairSpecRange == SpecRange /\ WF_vars(loop) /\ WF_vars(processingTask)

\* The display's LED state next to led_state (Waveshare): the alert state
\* machine with the main loop, processingTask and the clock all kept going
FairSpecDisplay ==
    SpecLed /\ WF_vars(loop) /\ WF_vars(processingTask) /\ WF_vars(Tick)

\* Signal statistics: one WiFi device heard at three strengths and one BLE
\* device, inside the TTL and past it
RssiEnv ==
    [wifi |-> RssiWifiFrames, ble |-> RssiBleAds, ticks |-> RssiTicks,
     window |-> 1, script |-> <<>>, steps |-> {DETECTION_TTL + 1},
     frames |-> {Frame(MacA, Hidden, -80, FT_PROBE_REQ),
                 Frame(MacA, Hidden, -60, FT_PROBE_REQ),
                 Frame(MacA, Hidden, -40, FT_PROBE_REQ)},
     adverts |-> {Advert(MacB, PenguinName, -75)}]

InitRssi ==
    /\ InitProgram
    /\ variant = "CYD"
    /\ ledAlertsEnabled = TRUE
    /\ env = RssiEnv

NextRssi == WifiRx \/ BleRx \/ processingTask \/ Tick

SpecRssi == InitRssi /\ [][NextRssi]_vars


(***************************************************************************)
(* Properties                                                              *)
(***************************************************************************)
\* the step is processingTask handling a dequeued event that matched
MatchProcessed(m) ==
    /\ events_processed' = events_processed + 1
    /\ evt'.mac = m
    /\ EventMatches(evt')

WithinTtlOfPreviousMatch(m) ==
    /\ prev_match[m] # Never
    /\ now - prev_match[m] <= DETECTION_TTL

\* C1 (as claimed): once a record was emitted for MAC m, a later match of m
\* processed within 300 s of m's previous match emits no further record.
C1_NoRepeatWithinTtl ==
    [][\A m \in Macs :
          (MatchProcessed(m) /\ ever_emitted[m] /\ WithinTtlOfPreviousMatch(m))
              => records_out' = records_out]_vars

\* C1 (amended): the same, for a MAC m that is stored in the tracked-device
\* table when the later match is processed (its insertion did not fail at
\* the probe limit).
C1_NoRepeatWithinTtlWhenTracked ==
    [][\A m \in Macs :
          (/\ MatchProcessed(m)
           /\ ever_emitted[m]
           /\ WithinTtlOfPreviousMatch(m)
           /\ find_tracked(tracked_devices, m) # NoSlot)
              => /\ records_out' = records_out
                 /\ hash_entries' = hash_entries
                 /\ tracked_devices'[find_tracked(tracked_devices, m)].hit_count
                      = (tracked_devices[find_tracked(tracked_devices, m)].hit_count + 1) % U16]_vars

\* a second match of MacA was processed inside the TTL: one record, two hits
C1_Witness ==
    /\ events_processed = 2
    /\ evt.mac = MacA
    /\ records_out = 1
    /\ ever_emitted[MacA]
    /\ find_tracked(tracked_devices, MacA) # NoSlot
    /\ tracked_devices[find_tracked(tracked_devices, MacA)].hit_count = 2

\* C2: a match of a MAC that is in the table, processed more than 300 s
\* after the entry's last_seen, emits a record for it while the entry is
\* reused: same slot, mac_hash and first_seen, hash_entries not incremented,
\* hit_count one more than before.
C2_ExpiredEntryReused ==
    [][\A m \in Macs :
          LET s == find_tracked(tracked_devices, m)
          IN  (/\ MatchProcessed(m)
               /\ s # NoSlot
               /\ now - tracked_devices[s].last_seen > DETECTION_TTL)
                  => /\ records_out' = records_out + 1
                     /\ last_out'.mac = m
                     /\ last_out'.timestamp = now
                     /\ find_tracked(tracked_devices', m) = s
                     /\ tracked_devices'[s].mac_hash = tracked_devices[s].mac_hash
                     /\ tracked_devices'[s].first_seen = tracked_devices[s].first_seen
                     /\ tracked_devices'[s].hit_count =
                           (tracked_devices[s].hit_count + 1) % U16
                     /\ hash_entries' = hash_entries]_vars

\* a record was just written for a device first seen more than a TTL earlier
C2_Witness ==
    /\ last_out # NoRecord
    /\ LET s == find_tracked(tracked_devices, last_out.mac)
       IN  /\ s # NoSlot
           /\ tracked_devices[s].hit_count >= 2
           /\ tracked_devices[s].last_seen = last_out.timestamp
           /\ last_out.timestamp - tracked_devices[s].first_seen > DETECTION_TTL
           /\ last_out.hit_count = tracked_devices[s].hit_count

\* C3: the detection queue never holds more than 16 events.
C3_QueueAtMost16 == Len(detectionQueue) <= 16

\* the queue is full and an attempt has been turned away
C3_Witness == Len(detectionQueue) = 16 /\ rejected >= 1

\* C4 (as claimed): in a burst with no dequeue, the attempts made on a full
\* queue are each counted in events_dropped, by either producer: after N
\* completed attempts into the empty queue events_dropped is max(0, N - 16).
C4_BurstDropsCounted ==
    (events_processed = 0 /\ ble_blocked = NoEvent)
        => events_dropped =
              (IF accepted + rejected > 16 THEN accepted + rejected - 16 ELSE 0)

\* C5 (as claimed): no producer callback ever waits for queue space.
C5_ProducersNeverWait == ble_blocked = NoEvent

\* C6: events are dequeued in the order they were accepted: the k-th event
\* received by the processing task is the k-th event accepted.
C6_FifoOrder == events_processed > 0 => evt.seq = events_processed

\* a BLE event was received ahead of the WiFi events accepted after it
C6_Witness ==
    /\ events_processed >= 2
    /\ ~IsWifiEvent(evt)
    /\ Len(detectionQueue) >= 2
    /\ IsWifiEvent(Head(detectionQueue))

\* C7: every accepted event is either still queued, once, or was consumed,
\* once; events_processed counts the consumed ones; and with the processing
\* task scheduled fairly every accepted event is eventually consumed: the
\* queue is empty again and again, or events keep being consumed (and each
\* queued event has only the events ahead of it to wait for).
C7_Accounted ==
    /\ events_processed + Len(detectionQueue) = accepted
    /\ \A i \in 1..Len(detectionQueue) : detectionQueue[i].seq = events_processed + i

C7_ConsumedExactlyOnce ==
    /\ []C7_Accounted
    /\ \/ []<>(detectionQueue = <<>>)
       \/ []<><<events_processed' = events_processed + 1>>_vars

\* the queue was filled, overflowed and then drained completely
C7_Witness ==
    /\ rejected >= 1
    /\ accepted >= 17
    /\ events_processed = accepted

\* C8: a rejected enqueue leaves the queue's contents and order unchanged.
C8_RejectKeepsQueue ==
    [][rejected' > rejected => detectionQueue' = detectionQueue]_vars

\* both producers have had an attempt turned away by the full queue
C8_Witness ==
    /\ rejected >= 2
    /\ events_dropped >= 1
    /\ events_dropped < rejected
    /\ Len(detectionQueue) = 16

\* C9 (as claimed): every new detection processed (a record is emitted)
\* puts the alert state machine in Detected.
C9_NewDetectionTriggers ==
    [][(events_processed' = events_processed + 1 /\ records_out' = records_out + 1)
          => led_state' = LED_DETECTED]_vars

\* C10 (as claimed): led_state only moves Scanning->Detected,
\* Detected->Detected, Detected->Alert, Alert->Detected, Alert->Scanning.
LedMoves ==
    { <<LED_SCANNING, LED_DETECTED>>, <<LED_DETECTED, LED_DETECTED>>,
      <<LED_DETECTED, LED_ALERT>>, <<LED_ALERT, LED_DETECTED>>,
      <<LED_ALERT, LED_SCANNING>> }

C10_LedTransitions ==
    [][led_state' = led_state \/ <<led_state, led_state'>> \in LedMoves]_vars

\* C14 (as claimed): hop_channel never changes current_channel while the
\* sticky window is running (now < channel_sticky_until).
C14_NoHopWhileSticky ==
    [][current_channel' # current_channel => ~(now < channel_sticky_until)]_vars

C16_AwayChannelsIdle ==
    \A c \in 1..MAX_CHANNEL : c # current_channel => channel_activity[c] = 0

\* a trigger is between its store of led_state and its store of the
\* detection timestamp
TriggerInProgress == pcTask = "led_stamp"

\* when led_flash_trigger was last called: a trigger in progress was called
\* in the step that wrote the last record, a completed one left its time
\* in led_detection_time
MostRecentTrigger ==
    IF TriggerInProgress THEN last_out.timestamp ELSE led_detection_time

\* C11 (as claimed): led_state steps from Detected to Alert only when at
\* least 5 s have passed since the most recent led_flash_trigger.
C11_AlertOnlyAfterQuiet ==
    [][(led_state = LED_DETECTED /\ led_state' = LED_ALERT)
          => now - MostRecentTrigger >= LED_DETECTED_QUIET]_vars

\* the quiet period / timeout has passed since the last completed trigger
QuietPassed(state, span) ==
    /\ led_state = state
    /\ ~TriggerInProgress
    /\ now - led_detection_time >= span

C13_WaveshareAlertPersists ==
    [][(variant = "WAVESHARE" /\ led_state = LED_ALERT)
          => led_state' \in {LED_ALERT, LED_DETECTED}]_vars

\* the dwell the scheduler must have waited: 200 ms below 5 frames, 800 ms
\* from 5 to 19, 1500 ms from 20, plus 500 ms per detection counted on the
\* channel, never more than 3000 ms
RequiredDwell(activity, detections) ==
    LET tier == IF activity < 5 THEN 200
                ELSE IF activity <= 19 THEN 800
                ELSE 1500
        total == tier + 500 * detections
    IN  IF total > 3000 THEN 3000 ELSE total

C18_DetectionsNeverDecrease ==
    [][\A c \in 1..MAX_CHANNEL :
          channel_detections'[c] >= channel_detections[c]]_vars

\* C19: current_channel is always in 1..13, and every hop resets the
\* activity counter of the channel it leaves, moves to the next channel
\* (13 to 1) and sets last_channel_hop to the time hop_channel read
C19_HopStep ==
    /\ [](current_channel \in 1..13)
    /\ [][current_channel' # current_channel =>
            /\ channel_activity'[current_channel] = 0
            /\ current_channel' = (IF current_channel = 13 THEN 1
                                   ELSE current_channel + 1)
            /\ last_channel_hop' = loop_now]_vars

\* the scheduler wrapped from 13 to 1 and then moved on to 2
C19_Witness ==
    /\ current_channel = 2
    /\ last_channel_hop = now
    /\ channel_activity[1] = 0
    /\ channel_activity[MAX_CHANNEL] = 0

Occupied(slot) == tracked_devices[slot].mac_hash # HASH_ZERO

\* C20: every occupied slot of the table has rssi_min <= rssi_last <= rssi_max
C20_RssiOrdered ==
    \A slot \in 0..(MAX_TRACKED - 1) :
        Occupied(slot) =>
            /\ tracked_devices[slot].rssi_min <= tracked_devices[slot].rssi_last
            /\ tracked_devices[slot].rssi_last <= tracked_devices[slot].rssi_max

\* a device added and updated twice, its last reading strictly inside its range
C20_Witness ==
    \E slot \in 0..(MAX_TRACKED - 1) :
        /\ Occupied(slot)
        /\ tracked_devices[slot].hit_count = 3
        /\ tracked_devices[slot].rssi_min < tracked_devices[slot].rssi_last
        /\ tracked_devices[slot].rssi_last < tracked_devices[slot].rssi_max

\* slot s holds the entry add_detected_device made for MAC m
StoredAt(table, m, s) == table[s].mac_hash = HashOf(m) /\ table[s].mac = m

\* C21: once MAC m is stored in a slot, the slot is never freed or given to
\* another device and find_tracked(m) keeps returning it, whatever is
\* inserted afterwards
C21_SlotIsStable ==
    [][\A m \in Macs : \A s \in 0..(MAX_TRACKED - 1) :
          StoredAt(tracked_devices, m, s) =>
              /\ StoredAt(tracked_devices', m, s)
              /\ find_tracked(tracked_devices', m) = s]_vars

\* the first of the eight neighbours is still found in its home slot after
\* the other seven were inserted behind it and a ninth device was refused
C21_Witness ==
    /\ hash_entries = Len(Fillers)
    /\ table_warned
    /\ StoredAt(tracked_devices, Fillers[1], HashIndex(HashOf(Fillers[1])))
    /\ find_tracked(tracked_devices, Fillers[1]) = HashIndex(HashOf(Fillers[1]))
    /\ find_tracked(tracked_devices, Fillers[Len(Fillers)]) # NoSlot

\* C22: hit_count of a tracked device never decreases
C22_HitCountNeverDecreases ==
    [][\A s \in 0..(MAX_TRACKED - 1) :
          tracked_devices[s].mac_hash # HASH_ZERO =>
              tracked_devices'[s].hit_count >= tracked_devices[s].hit_count]_vars

\* the HASH_MAX_PROBE slots probed for MAC m all hold other hashes
ProbeWindowFull(table, m) ==
    \A p \in 0..(HASH_MAX_PROBE - 1) :
        LET slot == (HashIndex(HashOf(m)) + p) % MAX_TRACKED
        IN  table[slot].mac_hash \notin {HASH_ZERO, HashOf(m)}

\* C23: add_detected_device for a MAC whose eight probed slots all hold
\* other hashes fails with the warning and leaves every slot, hash_entries
\* and hash_collisions unchanged
C23_FullWindowInsertFails ==
    [][\A m \in Macs :
          (MatchProcessed(m) /\ ProbeWindowFull(tracked_devices, m)) =>
              /\ table_warned'
              /\ tracked_devices' = tracked_devices
              /\ hash_entries' = hash_entries
              /\ hash_collisions' = hash_collisions]_vars

\* the insertion of MacA into its full neighbourhood was refused
C23_Witness ==
    /\ evt # NoEvent
    /\ evt.mac = MacA
    /\ ProbeWindowFull(tracked_devices, MacA)
    /\ table_warned
    /\ hash_entries = Len(Fillers)
    /\ find_tracked(tracked_devices, MacA) = NoSlot

\* the event as onResult judged it: a listed MAC prefix, or a name that is
\* not empty and holds a listed pattern
BleMatchedAtCapture(e) ==
    \/ check_mac_prefix(e.mac)
    \/ (Len(e.ssid) > 0 /\ check_device_name_pattern_of(e.ssid))

\* C27: every BLE event in the detection queue (or being sent to it) had a
\* MAC-prefix match or a name match at capture
C27_BleEventsPreFiltered ==
    /\ \A i \in 1..Len(detectionQueue) :
          ~IsWifiEvent(detectionQueue[i]) => BleMatchedAtCapture(detectionQueue[i])
    /\ ble_blocked # NoEvent => BleMatchedAtCapture(ble_blocked)

\* two advertisements were received, one was filtered and one is queued
C27_Witness ==
    /\ env.ble = CaptureBleAds - 2
    /\ env.wifi = CaptureWifiFrames
    /\ accepted = 1
    /\ events_processed = 0
    /\ Len(detectionQueue) = 1
    /\ ~IsWifiEvent(detectionQueue[1])

\* the classification of a record: both criteria matched, one, or none
RequiredScore(text_match, mac_match) ==
    IF text_match /\ mac_match THEN 100
    ELSE IF text_match # mac_match THEN 85 ELSE 70

RequiredCombined(e) == IF IsWifiEvent(e) THEN "SSID_AND_MAC" ELSE "NAME_AND_MAC"

\* the event's own text (SSID or device name) holds a listed pattern
EventTextMatches(e) ==
    /\ Len(e.ssid) > 0
    /\ IF IsWifiEvent(e) THEN check_ssid_pattern_of(e.ssid)
       ELSE check_device_name_pattern_of(e.ssid)

\* C28: every emitted record has threat_score 100 and the combined
\* detection_criteria exactly when both the SSID/name pattern and the MAC
\* prefix match, 85 when exactly one matches and 70 when neither does
C28_ScoreFollowsMatches ==
    [][records_out' # records_out =>
          LET e == evt'
              text_match == EventTextMatches(e)
              mac_match == check_mac_prefix(e.mac)
          IN  /\ last_out'.mac = e.mac
              /\ last_out'.threat_score = RequiredScore(text_match, mac_match)
              /\ (last_out'.detection_criteria = RequiredCombined(e))
                    <=> (text_match /\ mac_match)
              /\ (last_out'.threat_score = 100)
                    <=> (last_out'.detection_criteria = RequiredCombined(e))]_vars

\* two records were written: the last for a BLE device matched by both
\* criteria, after one for a device matched by one
C28_Witness ==
    /\ records_out = 2
    /\ last_out.protocol = "ble"
    /\ last_out.threat_score = 100
    /\ last_out.detection_criteria = "NAME_AND_MAC"
    /\ \E m \in Macs : m # last_out.mac /\ ever_emitted[m]

\* C30: a WiFi event that matches, new or not, adds one to
\* channel_detections[evt.channel] and sets channel_sticky_until to
\* now + 5000; any other event leaves both unchanged
C30_MatchBumpsChannel ==
    [][events_processed' # events_processed =>
          LET e == evt'
          IN  IF IsWifiEvent(e) /\ EventMatches(e)
              THEN /\ channel_detections' =
                         [channel_detections EXCEPT ![e.channel] = @ + 1]
                   /\ channel_sticky_until' = now + 5000
              ELSE UNCHANGED <<channel_detections, channel_sticky_until>>]_vars

\* the same with the counter as wide as its type (uint8_t)
MatchBumpsChannelModulo ==
    [][events_processed' # events_processed =>
          LET e == evt'
          IN  IF IsWifiEvent(e) /\ EventMatches(e)
              THEN /\ channel_detections' =
                         [channel_detections EXCEPT ![e.channel] = (@ + 1) % U8]
                   /\ channel_sticky_until' = now + 5000
              ELSE UNCHANGED <<channel_detections, channel_sticky_until>>]_vars

\* a store to the state the contexts share: the table, the alert state or
\* the per-channel counters
SharedStateWritten ==
    \/ tracked_devices' # tracked_devices
    \/ led_state' # led_state
    \/ led_detection_time' # led_detection_time
    \/ led_detection_rssi' # led_detection_rssi
    \/ channel_activity' # channel_activity
    \/ channel_detections' # channel_detections

\* C24: the tracked-device table, the alert state and the per-channel
\* counters are written only by a context that holds the display mutex
C24_SharedStateUnderMutex ==
    [][SharedStateWritten => displayMutex # "free"]_vars

\* C25: no SD-card I/O is done while the display mutex is held: the card
\* probe of checkSDCard runs only with the mutex free
C25_NoSdIoUnderMutex ==
    [][display'.lastSdCheck # display.lastSdCheck => displayMutex = "free"]_vars

\* C26: an event dequeued while the display mutex is held elsewhere skips
\* only the display call (the table is updated, the record written and the
\* alert triggered), and with the processing task scheduled fairly every
\* queued or dequeued event is finished however long the mutex is held
C26_PipelineNeverStalls ==
    /\ [][(events_processed' # events_processed /\ displayMutex # "free") =>
             LET e == evt'
                 newdet == EventMatches(e)
                             /\ ~is_already_detected(tracked_devices, e.mac, now)
             IN  /\ display' = display
                 /\ displayMutex' = displayMutex
                 /\ EventMatches(e) => find_tracked(tracked_devices', e.mac) # NoSlot
                 /\ newdet => /\ records_out' = records_out + 1
                              /\ last_out'.mac = e.mac
                 /\ (newdet /\ ~triggered) =>
                        triggered' /\ led_state' = LED_DETECTED]_vars
    /\ (detectionQueue # <<>> \/ pcTask # "idle")
          ~> (detectionQueue = <<>> /\ pcTask = "idle")

\* Waveshare: the event was processed to its end while the main loop held
\* the display mutex; the record is out, the alert is on, the display was
\* told nothing
C26_Witness ==
    /\ variant = "WAVESHARE"
    /\ displayMutex = "loop"
    /\ pcTask = "idle"
    /\ events_processed = 1
    /\ records_out = 1
    /\ triggered
    /\ led_detection_rssi = evt.rssi
    /\ find_tracked(tracked_devices, evt.mac) # NoSlot
    /\ display.totalDetections = 0
    /\ display.ledState = 1

\* the interval of every RSSI an int8_t holds, on CYD and on Waveshare
CydIntervals == [r \in FlashRssis |-> get_flash_interval(r)]
WaveshareIntervals == [r \in FlashRssis |-> FlashInterval(r)]

\* in `table`, no stronger signal than `a` has a longer interval and no
\* weaker one a shorter, and the interval of `a` is within 50..400 ms
MonotoneAt(table, a) ==
    /\ table[a] \in LED_FLASH_MIN_INTERVAL..LED_FLASH_MAX_INTERVAL
    /\ \A r \in FlashRssis : /\ r > a => table[r] <= table[a]
                             /\ r < a => table[r] >= table[a]

\* C29: a stronger signal never flashes slower, and every interval is
\* within 50..400 ms: for the RSSI in use and any other RSSI of an int8_t,
\* on CYD (get_flash_interval) and on Waveshare (updateLED)
C29_FlashIntervalMonotone ==
    /\ MonotoneAt(CydIntervals, led_detection_rssi)
    /\ MonotoneAt(WaveshareIntervals, display.detectionRssi)

\* Waveshare: the strongest signal an int8_t holds was detected and the
\* display toggled the flash at the first pass after FlashStep ms
C29_Witness ==
    /\ variant = "WAVESHARE"
    /\ led_detection_rssi = 127
    /\ display.ledState = 2
    /\ display.detectionRssi = 127
    /\ display.ledFlashState
    /\ display.lastLedUpdate = FlashStep

\* C31: an occupied slot changes only in the processing of an event that
\* carries the MAC stored in it
C31_SlotUpdatedByOwnMac ==
    [][\A s \in 0..(MAX_TRACKED - 1) :
          (tracked_devices[s].mac_hash # HASH_ZERO
              /\ tracked_devices'[s] # tracked_devices[s])
            => evt'.mac = tracked_devices[s].mac]_vars

\* C32: the channel written in a WiFi detection record is the channel the
\* matched frame was received on, which is also the entry's last_channel
C32_RecordChannelIsFrameChannel ==
    [][(records_out' # records_out /\ IsWifiEvent(evt')) =>
          /\ last_out'.channel = evt'.channel
          /\ tracked_devices'[find_tracked(tracked_devices', evt'.mac)].last_channel
                = last_out'.channel]_vars

\* C33: when a WiFi match sets the sticky window the radio is on the
\* channel the matched frame was received on
C33_StickyOnFrameChannel ==
    [][(events_processed' # events_processed
            /\ IsWifiEvent(evt') /\ EventMatches(evt')
            /\ channel_sticky_until' = now + CHANNEL_STICKY_DURATION)
          => current_channel' = evt'.channel]_vars

OccupiedSlots(table) ==
    {s \in 0..(MAX_TRACKED - 1) : table[s].mac_hash # HASH_ZERO}

\* C36: hash_entries is the number of occupied slots, at most MAX_TRACKED,
\* and hash_collisions is at most hash_entries
C36_EntriesCountSlots ==
    /\ hash_entries = Cardinality(OccupiedSlots(tracked_devices))
    /\ hash_entries <= MAX_TRACKED
    /\ hash_collisions <= hash_entries

\* eight devices share one probe neighbourhood, seven of them displaced, and
\* a ninth was refused
C36_Witness ==
    /\ Cardinality(OccupiedSlots(tracked_devices)) = HASH_MAX_PROBE
    /\ hash_collisions = HASH_MAX_PROBE - 1
    /\ events_processed > HASH_MAX_PROBE
    /\ table_warned

\* C37: an event for a device already in the table adds the time since
\* last_seen to probe_interval_sum and one to probe_intervals exactly when
\* that time is more than 10 ms and less than 30 s, and leaves both as they
\* were otherwise; hit_count goes up by one (in 16 bits) and last_seen
\* becomes the time of the event in either case
C37_IntervalOnlyInWindow ==
    [][\A m \in Macs :
          (MatchProcessed(m) /\ find_tracked(tracked_devices, m) # NoSlot) =>
             LET s == find_tracked(tracked_devices, m)
                 old == tracked_devices[s]
                 new == tracked_devices'[s]
                 interval == Sub32(now, old.last_seen)
             IN  /\ IF interval > 10 /\ interval < 30000
                    THEN /\ new.probe_interval_sum = old.probe_interval_sum + interval
                         /\ new.probe_intervals = (old.probe_intervals + 1) % U16
                    ELSE /\ new.probe_interval_sum = old.probe_interval_sum
                         /\ new.probe_intervals = old.probe_intervals
                 /\ new.hit_count = (old.hit_count + 1) % U16
                 /\ new.last_seen = now]_vars

\* the device was heard three times: 11 ms after the first (counted) and
\* again 10 ms later (not counted)
C37_Witness ==
    LET s == find_tracked(tracked_devices, MacA)
    IN  /\ s # NoSlot
        /\ tracked_devices[s].hit_count = 3
        /\ tracked_devices[s].probe_intervals = 1
        /\ tracked_devices[s].probe_interval_sum = PROBE_INTERVAL_MIN + 1
        /\ tracked_devices[s].last_seen = PROBE_INTERVAL_MIN + 1 + PROBE_INTERVAL_MIN
        /\ pcTask = "idle"

RangeTimes == {k * RangeStep : k \in 0..RangeTicks}

\* C35: once triggered is set and 30 s have passed since last_detection_time,
\* either a matching event is processed (the time is stamped again) or the
\* loop clears triggered; the loop's range check clears triggered and
\* device_in_range whenever it finds the device in range and 30 s passed;
\* a new detection processed while triggered is clear sets it again; and
\* nothing but the range check clears it
C35_LatchClearsAfterQuiet ==
    /\ [][(pcLoop = "range" /\ pcLoop' # "range" /\ device_in_range
             /\ Sub32(now, last_detection_time) >= 30000)
            => (~triggered' /\ ~device_in_range')]_vars
    /\ \A t \in RangeTimes :
          (triggered /\ last_detection_time = t /\ Sub32(now, t) >= 30000)
             ~> (~triggered \/ last_detection_time # t)
    /\ [][(records_out' # records_out /\ ~triggered) => triggered']_vars
    /\ [][(triggered /\ ~triggered') => (~device_in_range' /\ pcLoop = "range")]_vars

\* a second alert: the first device alerted at time 0, the loop cleared the
\* latch 30 s later, and the second device's detection raised the alert again
C35_Witness ==
    /\ triggered
    /\ records_out = 2
    /\ \E m \in {MacA, MacB} :
          /\ find_tracked(tracked_devices, m) # NoSlot
          /\ tracked_devices[find_tracked(tracked_devices, m)].first_seen = 0
    /\ led_state = LED_DETECTED
    /\ led_detection_time = OUT_OF_RANGE_MS
    /\ pcTask = "idle"

\* the ledState that setLEDScanning / setLEDDetection / setLEDAlert store
LedStateCode(state) ==
    IF state = LED_SCANNING THEN 1 ELSE IF state = LED_DETECTED THEN 2 ELSE 3

\* C34: on Waveshare, whenever led_state holds a value the display's
\* ledState eventually takes the corresponding one
C34_DisplayFollowsLedState ==
    \A x \in {LED_SCANNING, LED_DETECTED, LED_ALERT} :
        (variant = "WAVESHARE" /\ led_state = x)
            ~> (display.ledState = LedStateCode(x))

====
